---- MODULE Spec2Model ----
(***************************************************************************)
(* State-machine model of the combat / outcome core of rusty-game          *)
(* (src/src/combat.rs, src/src/characters/npc.rs, health.rs, movement.rs,  *)
(* mod.rs, src/src/map/collision.rs).                                      *)
(*                                                                         *)
(* One simulation tick runs every system registered in                     *)
(* CharactersPlugin::build once; each system is one action.  Commands      *)
(* (spawn, despawn, insert) are deferred and applied by EndTick, which     *)
(* also samples the keyboard edges of the next tick.                       *)
(***************************************************************************)
EXTENDS Integers, FiniteSets, Sequences, TLC

VARIABLES
    active,     \* CombatState.active
    outcome,    \* GameOutcome
    tracker,    \* EnemyTracker
    player,     \* the Player entity's components
    enemies,    \* the Enemy entities' components, by entity slot
    keys,       \* ButtonInput<KeyCode>::just_pressed of this tick, as read so far
    cmds,       \* Commands queued during this tick
    returned,   \* where combat_input_and_turns returned in this tick
    ran,        \* systems that have already run in this tick
    any_order,  \* whether the tick may run its systems in any order
    calc,       \* one hit of the turn resolution, taken on its own
    sweep,      \* one player's translation among tiles, taken on its own
    sampler,    \* the placement of the enemies by spawn_enemies_once, taken on its own
    level,      \* what the generated map and the random samples leave in reach
    pips,       \* the HealthPip entities: how many lie at each place
    pip_tracker, \* HealthPipTracker
    pip_cmds,   \* Commands on HealthPip entities queued during this tick
    clog,       \* CombatLog
    ui          \* the CombatUiRoot entity, the Commands queued on it and the
                \* change tick of CombatState as cleanup_combat_ui_on_end sees it

pickup_vars == <<pips, pip_tracker, pip_cmds>>

hud == <<clog, ui>>

vars == <<active, outcome, tracker, player, enemies, keys, cmds, returned, ran,
          any_order, level, hud, calc, sweep, sampler, pickup_vars>>

----------------------------------------------------------------------------
(* Bounds of the model and constants of the program *)

\* CharacterEntry.max_health and attack_damage of the one character definition
\* of the list, which the player and every enemy use (rounded, >= 1)
MaxHealth == 1
AttackDamage == 1
\* a hit is modelled only while it leaves the defender's hp >= -HpFloor
HpFloor == 1

ENEMIES_TO_SPAWN == 3
\* `count` of spawn_health_pips_once
PipCount == 6
\* the attack and defense values a hit taken on its own is computed for
MaxAttack == 8
MaxDefense == 3

\* TILE_SIZE in the units of the sweep, and the lengths derived from it:
\* nonwalkable_half_extent, water_half_extent, max_step_len
TileSize == 50
\* the attempt budget of the sampling of one enemy's position
SpawnAttempts == 200
SolidHalf == TileSize \div 2
WaterHalf == (48 * TileSize) \div 100
MaxStepLen == TileSize \div 5
\* the upper limit of the clamp of `steps`
MaxSteps == 8
\* the sweep is followed while the translation stays this close to the origin
ArenaHalf == 30
\* the components of `delta`: direction.normalize() * move_speed * delta_secs
DeltaComponents == {-160, -16, -8, 0, 8, 16, 160}
\* the component of `delta` of a fast character in a long frame
MaxDelta == 640
PlayerDefense == 2
EnemyDefense == 0

\* world positions, in tiles along one axis: the origin tile and its neighbour
Positions == {0, 1}
\* the displacement of one tick of movement input (0: no movement key held)
Steps == {-1, 0, 1}
Origin == 0
\* a place of the map out of the player's reach and of every trigger distance
Far == 3
Places == Positions \cup {Far}
EnemyIds == 1..ENEMIES_TO_SPAWN
\* the Entity id of an entity that has been despawned
Gone == 0

AnimationType == {"Walk", "Run", "Jump", "Attack", "Death"}
GameOutcome == {"None", "GameOver", "GameWon"}
KeyCodes == {"Space", "Enter", "KeyR"}
\* the return statements of combat_input_and_turns; "pending": it has not run yet
Returns == {"pending", "no_session", "no_input", "in_progress", "lookup_failed",
            "enemy_dead", "player_dead", "switched"}
\* rand01() in percent: below every chance, between the two crit chances,
\* between crit and hit chances, above every hit chance
Draws == {5, 12, 50, 99}

\* the Update systems of CharactersPlugin::build, in registration order
Systems == << "sync_player_stats", "move_player", "update_jump_state",
              "animate_characters", "revert_attack_when_finished",
              "spawn_health_pips_once", "collect_health_pips",
              "spawn_enemies_once", "detect_player_proximity_start_combat",
              "combat_input_and_turns", "handle_restart_input",
              "handle_enemy_death_cleanup", "handle_player_death_outcome" >>

SystemNames == {Systems[i] : i \in 1..Len(Systems)}

\* the same systems with the two systems of the combat UI that write
\* CombatLog, in registration order
UiSystems == << "sync_player_stats", "move_player", "update_jump_state",
                "animate_characters", "revert_attack_when_finished",
                "spawn_health_pips_once", "collect_health_pips",
                "spawn_enemies_once", "detect_player_proximity_start_combat",
                "combat_input_and_turns", "spawn_combat_ui_on_start",
                "cleanup_combat_ui_on_end", "handle_restart_input",
                "handle_enemy_death_cleanup", "handle_player_death_outcome" >>

\* the systems a behaviour follows: level.ui tells whether it follows the
\* combat UI and its log
Order == IF level.ui THEN UiSystems ELSE Systems

Scheduled == {Order[i] : i \in 1..Len(Order)}

IndexOf(s) == CHOOSE i \in 1..Len(Order) : Order[i] = s

\* a system may run when it has not run in this tick and, under the declared
\* order, every system registered before it has
Ready(s) ==
    /\ s \notin ran
    /\ any_order \/ \A i \in 1..(IndexOf(s) - 1) : Order[i] \in ran

Ran(s) == ran' = ran \cup {s}

----------------------------------------------------------------------------
(* Data *)

NoCombat == [open |-> FALSE, enemy |-> Gone, players_turn |-> FALSE]

\* ActiveCombat with the first turn given to the enemy
ActiveCombatEnemyFirst(e) == [open |-> TRUE, enemy |-> e, players_turn |-> FALSE]

ActiveCombat(e) == [open |-> TRUE, enemy |-> e, players_turn |-> TRUE]

NoEnemy == [exists |-> FALSE, hp |-> 0, anim |-> "Walk", done |-> "none", pos |-> Origin]

\* easy_enemy_stats + the bundle spawn_enemies_once spawns
NewEnemy(p) ==
    [exists |-> TRUE, hp |-> MaxHealth, anim |-> "Walk", done |-> "none", pos |-> p]

NoCommands == [despawn |-> {}, spawn |-> << >>, stats |-> FALSE]

\* no hit taken on its own
NoHit == [side |-> "none", attack |-> 0, defense |-> 0, crit |-> FALSE,
          hp |-> 0, dmg |-> 0, applied |-> FALSE]

\* no sweep taken on its own
NoSweep == [pos |-> <<0, 0>>, new_pos |-> <<0, 0>>, step |-> <<0, 0>>, left |-> -1,
            solids |-> {}, waters |-> {}, written |-> FALSE,
            deltas |-> {}, arena |-> 0]

\* no placement taken on its own
NoSampler == [phase |-> "idle", points |-> {}, solids |-> {}, waters |-> {},
              attempt |-> 0, pos |-> <<0, 0>>, placed |-> << >>]

\* no HealthPip anywhere
NoPips == [x \in Places |-> 0]

NoPipCommands == [despawn |-> {}, spawn |-> NoPips]

\* Option<AttackResult>
AttackResult == {"None", "Hit", "Miss"}

\* CombatLog::default(); last_msg is Some exactly when one of the two is
NoLog == [last_player |-> "None", last_enemy |-> "None"]

\* no CombatUiRoot, nothing queued
NoUi == [root |-> FALSE, spawn |-> FALSE, despawn |-> FALSE, changed |-> FALSE]

\* ResMut<CombatState> dereferenced mutably, where the behaviour follows the UI
Touched(u) == IF level.ui THEN [u EXCEPT !.changed = TRUE] ELSE u

\* the number of entities of a placement
Total(bag) == bag[0] + bag[1] + bag[Far]

Max(a, b) == IF a >= b THEN a ELSE b
Abs(a) == IF a >= 0 THEN a ELSE -a

\* f32::clamp
Clamp(x, lo, hi) == IF x < lo THEN lo ELSE IF x > hi THEN hi ELSE x

\* CharacterEntry.animations.get(kind) / AnimationController::get_clip of the
\* one character definition of the list
HasClip(kind) == kind \in level.clips

\* AnimationClip::is_complete on the actor's sprite, behind the lookup of the
\* clip: a.done is what the atlas index and the frame timer show for the
\* selected kind, and a kind without a clip is never complete
IsComplete(a, kind) == HasClip(kind) /\ a.done = kind

TypeOK ==
    /\ active \in [open : BOOLEAN, enemy : EnemyIds \cup {Gone}, players_turn : BOOLEAN]
    /\ outcome \in GameOutcome
    /\ tracker \in [spawned : BOOLEAN, alive : 0..ENEMIES_TO_SPAWN]
    /\ player.has_stats \in BOOLEAN
    /\ player.hp \in (-HpFloor)..MaxHealth
    /\ player.anim \in AnimationType
    /\ player.done \in AnimationType \cup {"none"}
    /\ player.is_jumping \in BOOLEAN
    /\ player.pos \in Positions
    /\ player.gpos \in Positions
    /\ \A e \in EnemyIds :
        /\ enemies[e].exists \in BOOLEAN
        /\ enemies[e].hp \in (-HpFloor)..MaxHealth
        /\ enemies[e].anim \in AnimationType
        /\ enemies[e].pos \in Places
    /\ keys \subseteq KeyCodes
    /\ returned \in Returns
    /\ ran \subseteq Scheduled
    /\ level \in [water : BOOLEAN, near : BOOLEAN, clips : SUBSET AnimationType,
                  narrow : BOOLEAN, ui : BOOLEAN, respawn : BOOLEAN]
    /\ clog \in [last_player : AttackResult, last_enemy : AttackResult]
    /\ ui \in [root : BOOLEAN, spawn : BOOLEAN, despawn : BOOLEAN, changed : BOOLEAN]
    /\ calc.side \in {"none", "player", "enemy"}
    /\ sweep.left \in -1..MaxSteps
    /\ sampler.phase \in {"idle", "sampling", "spawn", "finish", "done"}
    /\ sampler.attempt \in 0..SpawnAttempts
    /\ pips \in [Places -> 0..PipCount]
    /\ pip_tracker \in [spawned : BOOLEAN]
    /\ pip_cmds \in [despawn : SUBSET Places, spawn : [Places -> 0..PipCount]]

\* the state after App construction: default resources, the player spawned at
\* the origin, no enemy and no pickup yet
Constructed ==
    /\ active = NoCombat
    /\ outcome = "None"
    /\ tracker = [spawned |-> FALSE, alive |-> 0]
    /\ player = [has_stats |-> FALSE, hp |-> MaxHealth, anim |-> "Walk",
                 done |-> "none", is_jumping |-> FALSE, pos |-> Origin,
                 gpos |-> Origin]
    /\ enemies = [e \in EnemyIds |-> NoEnemy]
    /\ keys \in SUBSET {"Space"}
    /\ cmds = NoCommands
    /\ returned = "pending"
    /\ ran = {}
    /\ any_order = FALSE
    /\ pips = NoPips
    /\ pip_tracker = [spawned |-> FALSE]
    /\ pip_cmds = NoPipCommands
    /\ clog = NoLog
    /\ ui = NoUi

\* a map without water near whose origin the three enemies are sampled
Init ==
    /\ Constructed
    /\ sampler = NoSampler
    /\ level = [water |-> FALSE, near |-> TRUE, clips |-> AnimationType,
                narrow |-> FALSE, ui |-> FALSE, respawn |-> FALSE]
    /\ calc = NoHit
    /\ sweep = NoSweep

\* a map with water on which every enemy is sampled out of the player's reach
PickupInit ==
    /\ Constructed
    /\ sampler = NoSampler
    /\ level = [water |-> TRUE, near |-> FALSE, clips |-> AnimationType,
                narrow |-> FALSE, ui |-> FALSE, respawn |-> FALSE]
    /\ calc = NoHit
    /\ sweep = NoSweep

\* a map with water and enemies in reach whose free ground leaves the samplers
\* one place each: the enemies at the origin, the pickups one tile from it
FieldInit ==
    /\ Constructed
    /\ sampler = NoSampler
    /\ level = [water |-> TRUE, near |-> TRUE, clips |-> AnimationType,
                narrow |-> TRUE, ui |-> FALSE, respawn |-> FALSE]
    /\ calc = NoHit
    /\ sweep = NoSweep

\* a map without water whose free ground leaves the enemies one place, the
\* origin
DuelInit ==
    /\ Constructed
    /\ sampler = NoSampler
    /\ level = [water |-> FALSE, near |-> TRUE, clips |-> AnimationType,
                narrow |-> TRUE, ui |-> FALSE, respawn |-> FALSE]
    /\ calc = NoHit
    /\ sweep = NoSweep

\* the narrow map without water, on which an R edge may fall in any tick, the
\* one that spawns the enemies included
CensusInit ==
    /\ Constructed
    /\ sampler = NoSampler
    /\ level = [water |-> FALSE, near |-> TRUE, clips |-> AnimationType,
                narrow |-> TRUE, ui |-> FALSE, respawn |-> TRUE]
    /\ calc = NoHit
    /\ sweep = NoSweep

\* the narrow map without water, followed with the combat UI and its log
LogInit ==
    /\ Constructed
    /\ sampler = NoSampler
    /\ level = [water |-> FALSE, near |-> TRUE, clips |-> AnimationType,
                narrow |-> TRUE, ui |-> TRUE, respawn |-> FALSE]
    /\ calc = NoHit
    /\ sweep = NoSweep

\* a character definition that lacks the Death entry
NoDeathInit ==
    /\ Constructed
    /\ sampler = NoSampler
    /\ level = [water |-> FALSE, near |-> TRUE, clips |-> AnimationType \ {"Death"},
                narrow |-> FALSE, ui |-> FALSE, respawn |-> FALSE]
    /\ calc = NoHit
    /\ sweep = NoSweep

\* a character definition that lacks the Attack entry
NoAttackInit ==
    /\ Constructed
    /\ sampler = NoSampler
    /\ level = [water |-> FALSE, near |-> TRUE, clips |-> AnimationType \ {"Attack"},
                narrow |-> FALSE, ui |-> FALSE, respawn |-> FALSE]
    /\ calc = NoHit
    /\ sweep = NoSweep

\* the hits of the turn resolution: the attacking side, the attacker's attack,
\* the defender's defense and hp, and the outcome of the crit draw
DamageInit ==
    /\ Constructed
    /\ sampler = NoSampler
    /\ level = [water |-> FALSE, near |-> TRUE, clips |-> AnimationType,
                narrow |-> FALSE, ui |-> FALSE, respawn |-> FALSE]
    /\ calc \in [side : {"player", "enemy"}, attack : 1..MaxAttack,
                 defense : 0..MaxDefense, crit : BOOLEAN, hp : {1, 30},
                 dmg : {0}, applied : {FALSE}]
    /\ sweep = NoSweep

\* the player at the origin of a map with one NonWalkable tile, which lies on
\* the origin or one tile to its right, and one Water tile above the origin
MoveInit ==
    /\ Constructed
    /\ sampler = NoSampler
    /\ level = [water |-> TRUE, near |-> TRUE, clips |-> AnimationType,
                narrow |-> FALSE, ui |-> FALSE, respawn |-> FALSE]
    /\ calc = NoHit
    /\ sweep \in [pos : {<<0, 0>>}, new_pos : {<<0, 0>>}, step : {<<0, 0>>},
                  left : {-1}, solids : {{<<0, 0>>}, {<<TileSize, 0>>}},
                  waters : {{<<0, TileSize>>}}, written : {FALSE},
                  deltas : {DeltaComponents}, arena : {ArenaHalf}]

\* the player at the origin, one NonWalkable tile one tile to its right and one
\* Water tile above it, with a character speed and frame times that give a
\* displacement of many tiles in a frame
TunnelInit ==
    /\ Constructed
    /\ sampler = NoSampler
    /\ level = [water |-> TRUE, near |-> TRUE, clips |-> AnimationType,
                narrow |-> FALSE, ui |-> FALSE, respawn |-> FALSE]
    /\ calc = NoHit
    /\ sweep = [pos |-> <<0, 0>>, new_pos |-> <<0, 0>>, step |-> <<0, 0>>,
                left |-> -1, solids |-> {<<TileSize, 0>>},
                waters |-> {<<0, TileSize>>}, written |-> FALSE,
                deltas |-> {-MaxDelta, 0, MaxDelta}, arena |-> MaxDelta]

\* the placement of the enemies on a map with one NonWalkable tile, which lies
\* on the origin or one tile to its right, and one Water tile above the
\* origin; the random range gives the points of `points`
SampleInit ==
    /\ Constructed
    /\ level = [water |-> TRUE, near |-> TRUE, clips |-> AnimationType,
                narrow |-> FALSE, ui |-> FALSE, respawn |-> FALSE]
    /\ calc = NoHit
    /\ sweep = NoSweep
    /\ sampler \in [phase : {"idle"},
                    points : {{<<0, 0>>, <<TileSize, 0>>, <<0, TileSize>>,
                               <<2 * TileSize, 0>>, <<0, 0 - 2 * TileSize>>}},
                    solids : {{<<0, 0>>}, {<<TileSize, 0>>}},
                    waters : {{<<0, TileSize>>}},
                    attempt : {0}, pos : {<<0, 0>>}, placed : {<< >>}]

----------------------------------------------------------------------------
(* combat.rs: sync_player_stats *)

sync_player_stats ==
    /\ Ready("sync_player_stats")
    /\ Ran("sync_player_stats")
    /\ cmds' = IF player.has_stats THEN cmds ELSE [cmds EXCEPT !.stats = TRUE]
    /\ UNCHANGED <<active, outcome, tracker, player, enemies, keys, returned, any_order, level, sampler, hud, calc, sweep, pickup_vars>>

----------------------------------------------------------------------------
(* movement.rs: move_player, update_jump_state *)

\* new_pos of the sub-stepped sweep when no blocking or water tile is in the way
MoveTarget(pos, d) == pos + d

\* MovePlayer without the two early returns
MovePlayerUnsuppressed(p, d, running) ==
    LET p1 == IF "Space" \in keys
              THEN [p EXCEPT !.is_jumping = TRUE, !.anim = "Jump"]
              ELSE p
    IN  IF d # 0 THEN
            [p1 EXCEPT !.pos = MoveTarget(p.pos, d),
                       !.anim = IF p1.is_jumping THEN @
                                ELSE IF running THEN "Run" ELSE "Walk"]
        ELSE IF ~p1.is_jumping THEN [p1 EXCEPT !.anim = "Walk"]
        ELSE p1

\* the player's components after move_player, for a direction input d (0: no
\* movement key pressed) and the run modifier
MovePlayer(p, d, running) ==
    IF p.anim = "Death" THEN p
    ELSE IF active.open \/ outcome # "None" THEN
        IF ~p.is_jumping /\ p.anim \notin {"Death", "Attack"}
        THEN [p EXCEPT !.anim = "Walk"]
        ELSE p
    ELSE
        LET p1 == IF "Space" \in keys
                  THEN [p EXCEPT !.is_jumping = TRUE, !.anim = "Jump"]
                  ELSE p
        IN  IF d # 0 THEN
                [p1 EXCEPT !.pos = MoveTarget(p.pos, d),
                           !.anim = IF p1.is_jumping THEN @
                                    ELSE IF running THEN "Run" ELSE "Walk"]
            ELSE IF ~p1.is_jumping THEN [p1 EXCEPT !.anim = "Walk"]
            ELSE p1

move_player ==
    /\ Ready("move_player")
    /\ Ran("move_player")
    /\ \E d \in Steps, running \in BOOLEAN :
        /\ MoveTarget(player.pos, d) \in Positions
        /\ player' = MovePlayer(player, d, running)
    /\ UNCHANGED <<active, outcome, tracker, enemies, keys, cmds, returned, any_order, level, sampler, hud, calc, sweep, pickup_vars>>

\* would_collide_point
WouldCollidePoint(point, solids, waters) ==
    \/ \E t \in solids : /\ Abs(point[1] - t[1]) <= SolidHalf
                         /\ Abs(point[2] - t[2]) <= SolidHalf
    \/ \E t \in waters : /\ Abs(point[1] - t[1]) < WaterHalf
                         /\ Abs(point[2] - t[2]) < WaterHalf

\* StepCount with the quotient rounded down instead of up
StepCountFloor(delta) ==
    Clamp(Max(Abs(delta[1]), Abs(delta[2])) \div MaxStepLen, 1, MaxSteps)

\* `steps`: (max_component / max_step_len).ceil().clamp(1.0, 8.0)
StepCount(delta) ==
    Clamp((Max(Abs(delta[1]), Abs(delta[2])) + MaxStepLen - 1) \div MaxStepLen,
          1, MaxSteps)

\* new_pos after the X move of one sub-step, taken when its candidate does not
\* collide
MovedX(pos, step, solids, waters) ==
    LET candidate == <<pos[1] + step[1], pos[2]>>
    IN  IF step[1] # 0 /\ ~WouldCollidePoint(candidate, solids, waters)
        THEN candidate ELSE pos

\* MovedY that steps back when its candidate collides
MovedYBounce(pos, step, solids, waters) ==
    LET candidate == <<pos[1], pos[2] + step[2]>>
    IN  IF step[2] # 0 /\ ~WouldCollidePoint(candidate, solids, waters)
        THEN candidate ELSE <<pos[1], pos[2] - step[2]>>

\* new_pos after the Y move of one sub-step
MovedY(pos, step, solids, waters) ==
    LET candidate == <<pos[1], pos[2] + step[2]>>
    IN  IF step[2] # 0 /\ ~WouldCollidePoint(candidate, solids, waters)
        THEN candidate ELSE pos

\* The sub-steps of the loop are steps of the sweep: begin_move computes
\* `step` and `steps`, sub_step is one round of the loop, write_translation
\* is `transform.translation = new_pos`.
begin_move ==
    /\ sweep.solids # {} /\ sweep.left = -1
    /\ \E dx \in sweep.deltas, dy \in sweep.deltas :
        /\ <<dx, dy>> # <<0, 0>>
        /\ LET steps == StepCount(<<dx, dy>>)
           IN  sweep' = [sweep EXCEPT !.new_pos = sweep.pos,
                                      !.step = <<dx \div steps, dy \div steps>>,
                                      !.left = steps,
                                      !.written = FALSE]
    /\ UNCHANGED <<active, outcome, tracker, player, enemies, keys, cmds, returned,
                   ran, any_order, level, sampler, hud, calc, pickup_vars>>

sub_step ==
    /\ sweep.left > 0
    /\ LET px == MovedX(sweep.new_pos, sweep.step, sweep.solids, sweep.waters)
           py == MovedY(px, sweep.step, sweep.solids, sweep.waters)
       IN  /\ Abs(py[1]) <= sweep.arena /\ Abs(py[2]) <= sweep.arena
           /\ sweep' = [sweep EXCEPT !.new_pos = py, !.left = @ - 1]
    /\ UNCHANGED <<active, outcome, tracker, player, enemies, keys, cmds, returned,
                   ran, any_order, level, sampler, hud, calc, pickup_vars>>

write_translation ==
    /\ sweep.left = 0
    /\ sweep' = [sweep EXCEPT !.pos = sweep.new_pos, !.left = -1, !.written = TRUE]
    /\ UNCHANGED <<active, outcome, tracker, player, enemies, keys, cmds, returned,
                   ran, any_order, level, sampler, hud, calc, pickup_vars>>

\* the reset of the translation by handle_restart_input, for the translation
\* in sweep
reset_translation ==
    /\ sweep.solids # {} /\ sweep.left = -1
    /\ sweep' = [sweep EXCEPT !.pos = <<0, 0>>, !.new_pos = <<0, 0>>,
                              !.written = FALSE]
    /\ UNCHANGED <<active, outcome, tracker, player, enemies, keys, cmds, returned,
                   ran, any_order, level, sampler, hud, calc, pickup_vars>>

\* JumpStateUpdated without the completion test of the selected clip
JumpStateCleared(p) ==
    IF p.is_jumping
    THEN [p EXCEPT !.is_jumping = FALSE, !.anim = "Walk"]
    ELSE p

JumpStateUpdated(p) ==
    IF p.is_jumping /\ IsComplete(p, p.anim)
    THEN [p EXCEPT !.is_jumping = FALSE, !.anim = "Walk"]
    ELSE p

update_jump_state ==
    /\ Ready("update_jump_state")
    /\ Ran("update_jump_state")
    /\ player' = JumpStateUpdated(player)
    /\ UNCHANGED <<active, outcome, tracker, enemies, keys, cmds, returned, any_order, level, sampler, hud, calc, sweep, pickup_vars>>

----------------------------------------------------------------------------
(* animation.rs: animate_characters, revert_attack_when_finished *)

\* the sprite after the frame step: on the last frame of the selected clip with
\* the timer just fired (fin), or not.  Completion of a looping Walk / Run clip
\* is recorded only where a system reads it (reads).
Animated(a, fin, reads) ==
    [a EXCEPT !.done = IF fin /\ reads THEN a.anim ELSE "none"]

animate_characters ==
    /\ Ready("animate_characters")
    /\ Ran("animate_characters")
    /\ \E pf \in BOOLEAN, ef \in [EnemyIds -> BOOLEAN] :
        /\ player' = Animated(player, pf,
                player.is_jumping \/ player.anim \in {"Jump", "Attack", "Death"})
        /\ enemies' = [e \in EnemyIds |->
                IF enemies[e].exists
                THEN Animated(enemies[e], ef[e], enemies[e].anim \in {"Attack", "Death"})
                ELSE enemies[e]]
    /\ UNCHANGED <<active, outcome, tracker, keys, cmds, returned, any_order, level, sampler, hud, calc, sweep, pickup_vars>>

Reverted(a) ==
    IF a.anim = "Attack" /\ IsComplete(a, "Attack")
    THEN [a EXCEPT !.anim = "Walk"]
    ELSE a

revert_attack_when_finished ==
    /\ Ready("revert_attack_when_finished")
    /\ Ran("revert_attack_when_finished")
    /\ player' = Reverted(player)
    /\ enemies' = [e \in EnemyIds |->
            IF enemies[e].exists THEN Reverted(enemies[e]) ELSE enemies[e]]
    /\ UNCHANGED <<active, outcome, tracker, keys, cmds, returned, any_order, level, sampler, hud, calc, sweep, pickup_vars>>

----------------------------------------------------------------------------
(* health.rs: spawn_health_pips_once, collect_health_pips *)

\* PipSamples of a loop that does not stop at `count` pickups
PipSamplesUncounted == [Places -> 0..PipCount]

\* the placements spawn_health_pips_once can sample: a pickup whose 200
\* attempts all fail is skipped
PipSamples ==
    {bag \in [Places -> 0..PipCount] :
        /\ Total(bag) <= PipCount
        /\ level.narrow => bag[Origin] = 0 /\ bag[Far] = 0}

spawn_health_pips_once ==
    /\ Ready("spawn_health_pips_once")
    /\ Ran("spawn_health_pips_once")
    /\ IF pip_tracker.spawned \/ outcome # "None" \/ ~level.water
       THEN UNCHANGED <<pip_tracker, pip_cmds>>
       ELSE /\ \E bag \in PipSamples : pip_cmds' = [pip_cmds EXCEPT !.spawn = bag]
            /\ pip_tracker' = [spawned |-> TRUE]
    /\ UNCHANGED <<active, outcome, tracker, player, enemies, keys, cmds, returned,
                   any_order, level, sampler, hud, calc, sweep, pips>>

\* (max_hp * PIP_HEAL_PERCENT).round().max(1)
PipHeal == Max((15 * MaxHealth + 50) \div 100, 1)

\* d <= TILE_SIZE * 0.4, positions in tiles
InPickupRadius(a, b) == 10 * Abs(a - b) <= 4

\* the hp after the loop over n pickups in reach, without the min
HealedUncapped(hp, n) == hp + n * PipHeal

\* the hp after the loop over n pickups in reach
Healed(hp, n) ==
    IF n = 0 THEN hp
    ELSE IF hp + n * PipHeal > MaxHealth THEN MaxHealth ELSE hp + n * PipHeal

PipsInReach == {x \in Places : pips[x] > 0 /\ InPickupRadius(x, player.gpos)}

collect_health_pips ==
    /\ Ready("collect_health_pips")
    /\ Ran("collect_health_pips")
    /\ IF outcome = "None" /\ player.has_stats
       THEN /\ player' = [player EXCEPT !.hp = Healed(@, pips[player.gpos])]
            /\ pip_cmds' = [pip_cmds EXCEPT !.despawn = @ \cup PipsInReach]
       ELSE UNCHANGED <<player, pip_cmds>>
    /\ UNCHANGED <<active, outcome, tracker, enemies, keys, cmds, returned,
                   any_order, level, sampler, hud, calc, sweep, pips, pip_tracker>>

----------------------------------------------------------------------------
(* npc.rs: spawn_enemies_once, detect_player_proximity_start_combat *)

\* the positions sampled for the enemies; entity ids carry no meaning, so the
\* samples are listed in ascending order
SpawnSamples ==
    {ps \in [EnemyIds -> IF ~level.near THEN {Far}
                          ELSE IF level.narrow THEN {Origin} ELSE Positions] :
        \A i \in EnemyIds, j \in EnemyIds : i <= j => ps[i] <= ps[j]}

\* the Enemy entities of the world fit the slots of `enemies`: those the queued
\* spawn adds find the slots of the present ones freed at the end of the tick
SlotsFree == \A e \in EnemyIds : enemies[e].exists => e \in cmds.despawn

spawn_enemies_once ==
    /\ Ready("spawn_enemies_once")
    /\ Ran("spawn_enemies_once")
    /\ tracker.spawned \/ SlotsFree
    /\ IF tracker.spawned
       THEN UNCHANGED <<tracker, cmds>>
       ELSE /\ \E ps \in SpawnSamples : cmds' = [cmds EXCEPT !.spawn = ps]
            /\ tracker' = [spawned |-> TRUE, alive |-> ENEMIES_TO_SPAWN]
    /\ UNCHANGED <<active, outcome, player, enemies, keys, returned, any_order, level, sampler, hud, calc, sweep, pickup_vars>>

\* would_collide of spawn_enemies_once
would_collide(point, solids, waters) ==
    \/ \E t \in solids : /\ Abs(point[1] - t[1]) <= SolidHalf
                         /\ Abs(point[2] - t[2]) <= SolidHalf
    \/ \E t \in waters : /\ Abs(point[1] - t[1]) < WaterHalf
                         /\ Abs(point[2] - t[2]) < WaterHalf

\* Attempted taking the candidate whether it collides or not
AttemptedAnywhere(s, candidate) ==
    [s EXCEPT !.pos = candidate, !.phase = "spawn"]

\* one round of `for _attempt in 0..200` on the sampled candidate
Attempted(s, candidate) ==
    IF ~would_collide(candidate, s.solids, s.waters)
    THEN [s EXCEPT !.pos = candidate, !.phase = "spawn"]
    ELSE [s EXCEPT !.attempt = @ + 1,
                   !.phase = IF s.attempt + 1 = SpawnAttempts THEN "spawn" ELSE @]

\* The rounds of the two loops are steps of the placement: begin_spawn is the
\* early return on tracker.spawned, sample_attempt one round of the inner
\* loop, spawn_enemy the `commands.spawn` of one enemy, finish_spawn the two
\* writes of the tracker.
begin_spawn ==
    /\ sampler.points # {} /\ sampler.phase = "idle"
    /\ ~tracker.spawned
    /\ sampler' = [sampler EXCEPT !.phase = "sampling", !.attempt = 0,
                                  !.pos = <<0, 0>>, !.placed = << >>]
    /\ UNCHANGED <<active, outcome, tracker, player, enemies, keys, cmds, returned,
                   ran, any_order, level, hud, calc, sweep, pickup_vars>>

sample_attempt ==
    /\ sampler.phase = "sampling"
    /\ \E candidate \in sampler.points : sampler' = Attempted(sampler, candidate)
    /\ UNCHANGED <<active, outcome, tracker, player, enemies, keys, cmds, returned,
                   ran, any_order, level, hud, calc, sweep, pickup_vars>>

spawn_enemy ==
    /\ sampler.phase = "spawn"
    /\ LET placed == Append(sampler.placed,
                            [pos |-> sampler.pos,
                             exhausted |-> sampler.attempt = SpawnAttempts])
       IN  sampler' = [sampler EXCEPT
                          !.placed = placed,
                          !.attempt = 0,
                          !.pos = <<0, 0>>,
                          !.phase = IF Len(placed) = ENEMIES_TO_SPAWN
                                    THEN "finish" ELSE "sampling"]
    /\ UNCHANGED <<active, outcome, tracker, player, enemies, keys, cmds, returned,
                   ran, any_order, level, hud, calc, sweep, pickup_vars>>

finish_spawn ==
    /\ sampler.phase = "finish"
    /\ tracker' = [spawned |-> TRUE, alive |-> ENEMIES_TO_SPAWN]
    /\ sampler' = [sampler EXCEPT !.phase = "done"]
    /\ UNCHANGED <<active, outcome, player, enemies, keys, cmds, returned,
                   ran, any_order, level, hud, calc, sweep, pickup_vars>>

\* d < TILE_SIZE * 0.75, positions in tiles
InTriggerRange(a, b) == 4 * Abs(a - b) < 3

EnemiesInRange ==
    {e \in EnemyIds : enemies[e].exists /\ InTriggerRange(enemies[e].pos, player.gpos)}

\* DetectionEnabled without the early return on the outcome
DetectionIgnoresOutcome == ~active.open

\* whether detection goes past its early returns
DetectionEnabled == ~active.open /\ outcome = "None"

detect_player_proximity_start_combat ==
    /\ Ready("detect_player_proximity_start_combat")
    /\ Ran("detect_player_proximity_start_combat")
    /\ IF DetectionEnabled /\ EnemiesInRange # {}
       THEN /\ \E e \in EnemiesInRange : active' = ActiveCombat(e)
            /\ ui' = Touched(ui)
       ELSE UNCHANGED <<active, ui>>
    /\ UNCHANGED <<outcome, tracker, player, enemies, keys, cmds, returned, any_order, level, sampler, clog, calc, sweep, pickup_vars>>

----------------------------------------------------------------------------
(* combat.rs: combat_input_and_turns *)

\* (base - evade).clamp(0.1, 0.95), in percent
HitChance(base, evade) == Clamp(base - evade, 10, 95)

\* n / 10 cut off instead of rounded
TruncTenths(n) == n \div 10

\* f32::round of n / 10, for n >= 0
RoundTenths(n) == (n + 5) \div 10

\* Damage without the two max(1) floors
DamageUnfloored(attack, defense, crit, mult) ==
    RoundTenths((attack - defense) * (IF crit THEN 2 ELSE 1) * mult)

\* (dmg_f * MULTIPLIER).round().max(1.0) as i32; mult is the multiplier times 10
Damage(attack, defense, crit, mult) ==
    Max(RoundTenths(Max(attack - defense, 1) * (IF crit THEN 2 ELSE 1) * mult), 1)

\* PLAYER_DAMAGE_MULTIPLIER and ENEMY_DAMAGE_MULTIPLIER, times 10
Multiplier(side) == IF side = "player" THEN 22 ELSE 18

\* the hit branch of the turn resolution for the hit in calc
apply_hit ==
    /\ calc.side # "none" /\ ~calc.applied
    /\ LET dmg == Damage(calc.attack, calc.defense, calc.crit, Multiplier(calc.side))
       IN  calc' = [calc EXCEPT !.dmg = dmg, !.hp = @ - dmg, !.applied = TRUE]
    /\ UNCHANGED <<active, outcome, tracker, player, enemies, keys, cmds, returned,
                   ran, any_order, level, sampler, hud, sweep, pickup_vars>>

\* input.just_pressed(Space) || input.just_pressed(Enter)
Proceed == "Space" \in keys \/ "Enter" \in keys

\* The Space edge, which two systems read, is sampled when the tick begins; an
\* edge only one system reads (Enter, KeyR) is sampled when that system reads
\* it, and is recorded in keys from then on.
Sampled(k, pressed) == keys' = IF pressed THEN keys \cup {k} ELSE keys

\* AttackInProgress with the completion test inverted
AttackCompleted(a) ==
    a.anim = "Attack" /\ HasClip("Attack") /\ IsComplete(a, "Attack")

\* one actor's part of the attack_in_progress test
AttackInProgress(a) ==
    a.anim = "Attack" /\ HasClip("Attack") /\ ~IsComplete(a, "Attack")

\* enemy_q.get_mut(active.enemy) / anim_sets.p3().get(active.enemy)
EnemyFound(e) == e \in EnemyIds /\ enemies[e].exists

attack_in_progress ==
    \/ AttackInProgress(player)
    \/ EnemyFound(active.enemy) /\ AttackInProgress(enemies[active.enemy])

\* CheckOutcomes without the turn switch
CheckOutcomesKeepsTurn(act, p, e) ==
    IF e.hp <= 0 THEN
        [active |-> NoCombat, player |-> p, enemy |-> [e EXCEPT !.anim = "Death"],
         returned |-> "enemy_dead"]
    ELSE IF p.hp <= 0 THEN
        [active |-> NoCombat, player |-> [p EXCEPT !.anim = "Death"], enemy |-> e,
         returned |-> "player_dead"]
    ELSE
        [active |-> act, player |-> p, enemy |-> e, returned |-> "switched"]

\* CheckOutcomes without the test of the player's hp
CheckOutcomesEnemyOnly(act, p, e) ==
    IF e.hp <= 0 THEN
        [active |-> NoCombat, player |-> p, enemy |-> [e EXCEPT !.anim = "Death"],
         returned |-> "enemy_dead"]
    ELSE
        [active |-> [act EXCEPT !.players_turn = ~@], player |-> p, enemy |-> e,
         returned |-> "switched"]

\* "Check outcomes" and "Switch turns", on the combatants p and e after the attack
CheckOutcomes(act, p, e) ==
    IF e.hp <= 0 THEN
        [active |-> NoCombat, player |-> p, enemy |-> [e EXCEPT !.anim = "Death"],
         returned |-> "enemy_dead"]
    ELSE IF p.hp <= 0 THEN
        [active |-> NoCombat, player |-> [p EXCEPT !.anim = "Death"], enemy |-> e,
         returned |-> "player_dead"]
    ELSE
        [active |-> [act EXCEPT !.players_turn = ~@], player |-> p, enemy |-> e,
         returned |-> "switched"]

\* TurnResolution with the damage subtracted whatever the hit draw
TurnResolutionWithoutMiss(act, p, e, r1, r2) ==
    IF act.players_turn THEN
        CheckOutcomes(act, [p EXCEPT !.anim = "Attack"],
            [e EXCEPT !.hp = @ - Damage(AttackDamage, EnemyDefense, r2 < 15,
                                        Multiplier("player"))])
    ELSE
        CheckOutcomes(act,
            [p EXCEPT !.hp = @ - Damage(AttackDamage, PlayerDefense, r2 < 10,
                                        Multiplier("enemy"))],
            [e EXCEPT !.anim = "Attack"])

\* "Turn resolution" with the two random draws r1 (hit) and r2 (crit)
TurnResolution(act, p, e, r1, r2) ==
    IF act.players_turn THEN
        LET hit == r1 < HitChance(85, 10)
            dmg == Damage(AttackDamage, EnemyDefense, r2 < 15, Multiplier("player"))
        IN  CheckOutcomes(act,
                [p EXCEPT !.anim = "Attack"],
                [e EXCEPT !.hp = IF hit THEN @ - dmg ELSE @])
    ELSE
        LET hit == r1 < HitChance(75, 10)
            dmg == Damage(AttackDamage, PlayerDefense, r2 < 10, Multiplier("enemy"))
        IN  CheckOutcomes(act,
                [p EXCEPT !.hp = IF hit THEN @ - dmg ELSE @],
                [e EXCEPT !.anim = "Attack"])

\* CombatLog after the attack of a resolution with the hit draw r1
Logged(log, act, r1) ==
    IF act.players_turn
    THEN [log EXCEPT !.last_player = IF r1 < HitChance(85, 10) THEN "Hit" ELSE "Miss"]
    ELSE [log EXCEPT !.last_enemy = IF r1 < HitChance(75, 10) THEN "Hit" ELSE "Miss"]

combat_input_and_turns ==
    /\ Ready("combat_input_and_turns")
    /\ Ran("combat_input_and_turns")
    /\ \E enter \in BOOLEAN : Sampled("Enter", enter)
    /\ IF ~active.open \/ ~Proceed' \/ attack_in_progress THEN
            /\ returned' = IF ~active.open THEN "no_session"
                           ELSE IF ~Proceed' THEN "no_input"
                           ELSE "in_progress"
            /\ UNCHANGED <<active, player, enemies, clog>>
       ELSE IF ~player.has_stats \/ ~EnemyFound(active.enemy) THEN
            /\ returned' = "lookup_failed"
            /\ active' = NoCombat
            /\ UNCHANGED <<player, enemies, clog>>
       ELSE \E r1 \in Draws, r2 \in Draws :
            LET res == TurnResolution(active, player, enemies[active.enemy], r1, r2)
            IN  /\ res.player.hp >= -HpFloor
                /\ res.enemy.hp >= -HpFloor
                /\ returned' = res.returned
                /\ active' = res.active
                /\ player' = res.player
                /\ enemies' = [enemies EXCEPT ![active.enemy] = res.enemy]
                /\ clog' = IF level.ui THEN Logged(clog, active, r1) ELSE clog
    /\ ui' = Touched(ui)
    /\ UNCHANGED <<outcome, tracker, cmds, any_order, level, sampler, calc, sweep, pickup_vars>>

----------------------------------------------------------------------------
(* combat.rs: handle_enemy_death_cleanup, handle_player_death_outcome,       *)
(* handle_restart_input                                                      *)

\* DeathFinished without the completion test of the Death clip
DeathSelected ==
    {e \in EnemyIds : enemies[e].exists /\ enemies[e].anim = "Death"}

\* DeathFinished without the lookup of the Death entry in the definition
DeathFinishedAnyClip ==
    {e \in EnemyIds : enemies[e].exists /\ enemies[e].anim = "Death"
                      /\ enemies[e].done = "Death"}

\* the enemies whose Death clip the cleanup finds complete
DeathFinished ==
    {e \in EnemyIds : enemies[e].exists /\ enemies[e].anim = "Death"
                      /\ IsComplete(enemies[e], "Death")}

\* AliveAfter with one decrement per run instead of one per enemy
AliveMinusOne(alive, n) == Max(alive - 1, 0)

\* EnemyTracker.alive after n enemies were counted: `if alive > 0 { alive -= 1 }`
AliveAfter(alive, n) == Max(alive - n, 0)

\* GameOutcome after n enemies were counted
OutcomeAfterCleanup(out, alive, n) ==
    IF n > 0 /\ AliveAfter(alive, n) = 0 THEN "GameWon" ELSE out

handle_enemy_death_cleanup ==
    /\ Ready("handle_enemy_death_cleanup")
    /\ Ran("handle_enemy_death_cleanup")
    /\ LET n == Cardinality(DeathFinished)
       IN  /\ cmds' = [cmds EXCEPT !.despawn = @ \cup DeathFinished]
           /\ tracker' = [tracker EXCEPT !.alive = AliveAfter(@, n)]
           /\ outcome' = OutcomeAfterCleanup(outcome, tracker.alive, n)
    /\ UNCHANGED <<active, player, enemies, keys, returned, any_order, level, sampler, hud, calc, sweep, pickup_vars>>

\* the test handle_player_death_outcome makes after its early return on outcome
PlayerDeathFinished(p) == p.anim = "Death" /\ IsComplete(p, "Death")

\* OutcomeAfterPlayerDeath without the completion test of the Death clip
LostOnDeathSelected(out, p) ==
    IF out = "None" /\ p.anim = "Death" THEN "GameOver" ELSE out

OutcomeAfterPlayerDeath(out, p) ==
    IF out = "None" /\ PlayerDeathFinished(p) THEN "GameOver" ELSE out

handle_player_death_outcome ==
    /\ Ready("handle_player_death_outcome")
    /\ Ran("handle_player_death_outcome")
    /\ outcome' = OutcomeAfterPlayerDeath(outcome, player)
    /\ UNCHANGED <<active, tracker, player, enemies, keys, cmds, returned, any_order, level, sampler, hud, calc, sweep, pickup_vars>>

\* Restored with the hp raised by max_hp instead of set to it
RestoredByHealing(p) ==
    IF p.has_stats
    THEN [p EXCEPT !.hp = @ + MaxHealth, !.pos = Origin, !.anim = "Walk"]
    ELSE p

\* Restored without the reset of the translation
RestoredInPlace(p) ==
    IF p.has_stats THEN [p EXCEPT !.hp = MaxHealth, !.anim = "Walk"] ELSE p

\* "Restore player": player_q.single_mut() needs the player's CombatStats
Restored(p) ==
    IF p.has_stats
    THEN [p EXCEPT !.hp = MaxHealth, !.pos = Origin, !.anim = "Walk"]
    ELSE p

restart_pressed == "KeyR" \in keys

\* an R edge falls in the tick that spawns the enemies only where level.respawn
\* lets it, and never in the tick that spawns the pickups
RestartAllowed == (level.respawn \/ cmds.spawn = << >>) /\ pip_cmds.spawn = NoPips

handle_restart_input ==
    /\ Ready("handle_restart_input")
    /\ Ran("handle_restart_input")
    /\ \E r \in BOOLEAN : (r => RestartAllowed) /\ Sampled("KeyR", r)
    /\ IF restart_pressed' THEN
            /\ active' = NoCombat
            /\ cmds' = [cmds EXCEPT !.despawn =
                            @ \cup {e \in EnemyIds : enemies[e].exists}]
            /\ tracker' = [spawned |-> FALSE, alive |-> 0]
            /\ player' = Restored(player)
            /\ pip_cmds' = [pip_cmds EXCEPT !.despawn =
                            @ \cup {x \in Places : pips[x] > 0}]
            /\ pip_tracker' = [spawned |-> FALSE]
            /\ outcome' = "None"
            /\ ui' = Touched(ui)
       ELSE UNCHANGED <<active, cmds, tracker, player, outcome, pip_cmds, pip_tracker, ui>>
    /\ UNCHANGED <<enemies, returned, any_order, level, sampler, clog, calc, sweep, pips>>

----------------------------------------------------------------------------
(* combat.rs: spawn_combat_ui_on_start, cleanup_combat_ui_on_end *)

spawn_combat_ui_on_start ==
    /\ level.ui
    /\ Ready("spawn_combat_ui_on_start")
    /\ Ran("spawn_combat_ui_on_start")
    /\ IF ui.root \/ ~active.open
       THEN UNCHANGED <<clog, ui>>
       ELSE /\ clog' = NoLog
            /\ ui' = [ui EXCEPT !.spawn = TRUE]
    /\ UNCHANGED <<active, outcome, tracker, player, enemies, keys, cmds, returned,
                   any_order, level, sampler, calc, sweep, pickup_vars>>

\* CombatLog after cleanup_combat_ui_on_end
CleanedLog(log, u, act) == IF u.changed /\ ~act.open THEN NoLog ELSE log

cleanup_combat_ui_on_end ==
    /\ level.ui
    /\ Ready("cleanup_combat_ui_on_end")
    /\ Ran("cleanup_combat_ui_on_end")
    /\ clog' = CleanedLog(clog, ui, active)
    /\ ui' = [ui EXCEPT !.changed = FALSE,
                        !.despawn = @ \/ (ui.changed /\ ~active.open /\ ui.root)]
    /\ UNCHANGED <<active, outcome, tracker, player, enemies, keys, cmds, returned,
                   any_order, level, sampler, calc, sweep, pickup_vars>>

----------------------------------------------------------------------------
(* The end of the Update schedule: the queued Commands are applied, transforms *)
(* are propagated (PostUpdate) and the next frame's key edges are read.        *)

\* Entity ids carry no meaning and no system of the model depends on the order
\* in which a query yields the enemies (detection picks any enemy in range), so
\* the enemies are kept in their slots in the order of EnemyKey.
AnimSeq == << "Walk", "Run", "Jump", "Attack", "Death", "none" >>

AnimIndex(a) == CHOOSE i \in 1..6 : AnimSeq[i] = a

EnemyKey(e) ==
    ((((IF e.exists THEN 0 ELSE 1) * 100 + e.pos) * 100 + (e.hp + HpFloor)) * 10
        + AnimIndex(e.anim)) * 10 + AnimIndex(e.done)

\* a permutation of the slots that puts the enemies f in the order of EnemyKey
Canon(f) ==
    CHOOSE pi \in Permutations(EnemyIds) :
        \A i \in EnemyIds, j \in EnemyIds :
            i < j => EnemyKey(f[pi[i]]) <= EnemyKey(f[pi[j]])

EndTick ==
    /\ ran = Scheduled
    /\ ran' = {}
    /\ LET world == IF cmds.spawn # << >>
                  THEN [e \in EnemyIds |-> NewEnemy(cmds.spawn[e])]
                  ELSE [e \in EnemyIds |->
                            IF e \in cmds.despawn THEN NoEnemy ELSE enemies[e]]
           pi == Canon(world)
       IN /\ enemies' = [i \in EnemyIds |-> world[pi[i]]]
          /\ active' = IF active.open /\ active.enemy \in cmds.despawn
                 THEN [active EXCEPT !.enemy = Gone]
                 ELSE IF active.open /\ active.enemy # Gone
                 THEN [active EXCEPT !.enemy =
                            CHOOSE i \in EnemyIds : pi[i] = active.enemy]
                 ELSE active
    /\ player' = [player EXCEPT !.has_stats = @ \/ cmds.stats, !.gpos = player.pos]
    /\ cmds' = NoCommands
    /\ returned' = "pending"
    /\ keys' \in SUBSET {"Space"}
    /\ pips' = [x \in Places |->
                (IF x \in pip_cmds.despawn THEN 0 ELSE pips[x]) + pip_cmds.spawn[x]]
    /\ pip_cmds' = NoPipCommands
    /\ ui' = [ui EXCEPT !.root = (@ /\ ~ui.despawn) \/ ui.spawn,
                        !.spawn = FALSE, !.despawn = FALSE]
    /\ UNCHANGED <<outcome, tracker, any_order, level, sampler, clog, calc, sweep, pip_tracker>>

Next ==
    \/ sync_player_stats
    \/ move_player
    \/ update_jump_state
    \/ animate_characters
    \/ revert_attack_when_finished
    \/ spawn_health_pips_once
    \/ collect_health_pips
    \/ spawn_enemies_once
    \/ detect_player_proximity_start_combat
    \/ combat_input_and_turns
    \/ handle_restart_input
    \/ handle_enemy_death_cleanup
    \/ handle_player_death_outcome
    \/ EndTick

Spec == Init /\ [][Next]_vars

PickupSpec == PickupInit /\ [][Next]_vars

FieldSpec == FieldInit /\ [][Next]_vars

UiNext == Next \/ spawn_combat_ui_on_start \/ cleanup_combat_ui_on_end

LogSpec == LogInit /\ [][UiNext]_vars

\* the frame step in which every clip a system reads reaches its end
ClipsComplete ==
    /\ animate_characters
    /\ player.anim \in {"Jump", "Attack", "Death"} => player'.done = player.anim
    /\ \A e \in EnemyIds :
            enemies[e].exists /\ enemies[e].anim \in {"Attack", "Death"}
                => enemies'[e].done = enemies[e].anim

\* the schedule runs every system in every frame, frame after frame, and every
\* selected clip completes again and again
DuelSpec ==
    DuelInit /\ [][Next]_vars /\ WF_vars(Next) /\ SF_vars(ClipsComplete)

NoDeathSpec == NoDeathInit /\ [][Next]_vars

NoAttackSpec == NoAttackInit /\ [][Next]_vars

DamageNext == apply_hit

DamageSpec == DamageInit /\ [][DamageNext]_vars

MoveNext == begin_move \/ sub_step \/ write_translation \/ reset_translation

MoveSpec == MoveInit /\ [][MoveNext]_vars

TunnelSpec == TunnelInit /\ [][MoveNext]_vars

CensusSpec == CensusInit /\ [][Next]_vars

SampleNext == begin_spawn \/ sample_attempt \/ spawn_enemy \/ finish_spawn

SampleSpec == SampleInit /\ [][SampleNext]_vars

\* both kinds of map
WorldSpec == (Init \/ PickupInit) /\ [][Next]_vars

----------------------------------------------------------------------------
(* Properties of the combat / outcome core *)

\* the step of a tick in which system s runs
Stepped(s) == s \notin ran /\ s \in ran'

\* the step in which combat_input_and_turns goes past its gate and finds both
\* combatants' stats
Resolves ==
    /\ Stepped("combat_input_and_turns")
    /\ active.open /\ Proceed' /\ ~attack_in_progress
    /\ player.has_stats /\ EnemyFound(active.enemy)

\* C1: with a session active, an advance input that arrives while the player or
\* the session's enemy has Attack selected and that clip is not complete makes
\* combat_input_and_turns change no hp, no players_turn, no session and no
\* animation selection.
C1_GateBlocksAdvance ==
    [][LET inflight(a) == a.anim = "Attack" /\ a.done # "Attack"
       IN  ( /\ Stepped("combat_input_and_turns")
             /\ active.open /\ Proceed'
             /\ \/ inflight(player)
                \/ /\ active.enemy \in EnemyIds
                   /\ enemies[active.enemy].exists
                   /\ inflight(enemies[active.enemy]) )
           => UNCHANGED <<active, player, enemies>>]_vars

C1_Witness ==
    /\ returned = "in_progress"
    /\ active.open /\ Proceed
    /\ player.anim = "Attack" /\ player.done # "Attack"

\* C2: once the outcome is GameOver or GameWon it keeps that value in every step
\* that is not a triggered restart.
C2_OutcomeLatched ==
    [][(outcome # "None" /\ ~(Stepped("handle_restart_input") /\ restart_pressed'))
       => outcome' = outcome]_vars

\* C3: at every tick boundary an active session references an enemy that still
\* exists (the player is never despawned).
C3_NoStaleSession ==
    (ran = {} /\ active.open) => EnemyFound(active.enemy)

\* C4: combat_input_and_turns never changes the selection of an actor whose
\* Death clip is selected and incomplete to anything but Death, and never
\* replaces the selection of an actor whose Attack clip is selected and
\* incomplete.
C4_NoInterruption ==
    [][LET kept(a, b) ==
               /\ (a.anim = "Death" /\ a.done # "Death") => b.anim = "Death"
               /\ (a.anim = "Attack" /\ a.done # "Attack") => b.anim = "Attack"
       IN  Stepped("combat_input_and_turns")
           => /\ kept(player, player')
              /\ \A e \in EnemyIds :
                    enemies[e].exists => kept(enemies[e], enemies'[e])]_vars

\* C5: an advance that passes the gate with both combatants' stats found either
\* flips players_turn and keeps the session, or closes the session with a
\* combatant at hp <= 0, never both and never neither; and it applies one attack:
\* only the defender's hp can change, by nothing or by one damage value.
C5_OneResolutionPerAdvance ==
    [][Resolves =>
        LET e == active.enemy
            flipped == /\ active'.open /\ active'.enemy = e
                       /\ active'.players_turn = ~active.players_turn
            closed  == ~active'.open /\ (player'.hp <= 0 \/ enemies'[e].hp <= 0)
            by_player == {0, Damage(AttackDamage, EnemyDefense, FALSE, 22),
                             Damage(AttackDamage, EnemyDefense, TRUE, 22)}
            by_enemy  == {0, Damage(AttackDamage, PlayerDefense, FALSE, 18),
                             Damage(AttackDamage, PlayerDefense, TRUE, 18)}
        IN  /\ (flipped \/ closed) /\ ~(flipped /\ closed)
            /\ IF active.players_turn
               THEN /\ player'.hp = player.hp
                    /\ enemies[e].hp - enemies'[e].hp \in by_player
               ELSE /\ enemies'[e].hp = enemies[e].hp
                    /\ player.hp - player'.hp \in by_enemy
            /\ \A o \in EnemyIds \ {e} : enemies'[o] = enemies[o]]_vars

C5_Witness ==
    /\ returned = "switched"
    /\ active.open /\ ~active.players_turn
    /\ player.anim = "Attack"

\* C6: a resolution that leaves the defender's hp <= 0 selects Death for the
\* defender and clears the session (so no turn is flipped); no resolution queues
\* a despawn or changes EnemyTracker or GameOutcome.
C6_DefenderDeath ==
    [][Resolves =>
        LET e == active.enemy
        IN  /\ IF active.players_turn
               THEN enemies'[e].hp <= 0
                        => enemies'[e].anim = "Death" /\ active' = NoCombat
               ELSE player'.hp <= 0
                        => player'.anim = "Death" /\ active' = NoCombat
            /\ cmds' = cmds /\ tracker' = tracker /\ outcome' = outcome]_vars

C6_Witness ==
    /\ returned = "player_dead"
    /\ player.hp <= 0 /\ player.anim = "Death"
    /\ ~active.open /\ cmds.despawn = {}

\* C7: a session is opened only by proximity detection, only when no session is
\* active and the outcome is None, only with an existing enemy closer than 0.75
\* tile to the player (both positions as their GlobalTransform gives them), and
\* it starts on the player's turn; detection leaves an active session as it is.
C7_SessionOpening ==
    [][ /\ (~active.open /\ active'.open)
            => /\ Stepped("detect_player_proximity_start_combat")
               /\ outcome = "None"
               /\ active'.enemy \in EnemyIds
               /\ enemies[active'.enemy].exists
               /\ 4 * Abs(enemies[active'.enemy].pos - player.gpos) < 3
               /\ active'.players_turn
        /\ (Stepped("detect_player_proximity_start_combat") /\ active.open)
            => active' = active ]_vars

\* the player moved in this tick, so no session was active when move_player ran
\* and the session that is active after detection was opened by it
C7_Witness ==
    /\ "detect_player_proximity_start_combat" \in ran
    /\ "combat_input_and_turns" \notin ran
    /\ active.open /\ active.players_turn
    /\ EnemyFound(active.enemy)
    /\ player.pos # player.gpos

\* C8: the outcome becomes GameOver only from None, only in the step of
\* handle_player_death_outcome and only with the player's Death clip selected and
\* complete; and whenever that system runs in such a state it sets GameOver.
C8_LostTransition ==
    [][LET finished == player.anim = "Death" /\ player.done = "Death"
       IN  /\ (outcome' = "GameOver" /\ outcome # "GameOver")
                => /\ Stepped("handle_player_death_outcome")
                   /\ outcome = "None" /\ finished
           /\ (Stepped("handle_player_death_outcome") /\ outcome = "None" /\ finished)
                => outcome' = "GameOver"]_vars

C8_Witness ==
    /\ "handle_player_death_outcome" \in ran
    /\ outcome = "GameOver"
    /\ player.anim = "Death" /\ player.done = "Death"
    /\ player.hp <= 0

\* C9: the outcome becomes GameWon only from None and only in a step of
\* handle_enemy_death_cleanup that lowers EnemyTracker.alive from a positive
\* value to 0.
C9_WonTransition ==
    [][(outcome' = "GameWon" /\ outcome # "GameWon")
        => /\ outcome = "None"
           /\ Stepped("handle_enemy_death_cleanup")
           /\ tracker.alive > 0 /\ tracker'.alive = 0]_vars

\* C10: handle_enemy_death_cleanup queues the despawn of exactly the enemies
\* whose Death clip is selected and complete and lowers EnemyTracker.alive by
\* their number, not below 0; alive is lowered by nothing else but a restart; and
\* a counted enemy is gone when the tick ends, so it is counted once.
C10_DeathCleanup ==
    [][LET dead == {e \in EnemyIds : /\ enemies[e].exists
                                     /\ enemies[e].anim = "Death"
                                     /\ enemies[e].done = "Death"}
           living(f) == {e \in EnemyIds : f[e].exists}
       IN  /\ Stepped("handle_enemy_death_cleanup")
                => /\ cmds'.despawn = cmds.despawn \cup dead
                   /\ tracker'.alive = Max(tracker.alive - Cardinality(dead), 0)
           /\ tracker'.alive < tracker.alive
                => \/ Stepped("handle_enemy_death_cleanup")
                   \/ Stepped("handle_restart_input") /\ restart_pressed'
           /\ (ran = SystemNames /\ ran' = {} /\ cmds.spawn = << >>)
                => Cardinality(living(enemies'))
                     = Cardinality(living(enemies) \ cmds.despawn)]_vars

C10_Witness ==
    /\ "handle_enemy_death_cleanup" \in ran
    /\ DeathFinished # {}
    /\ DeathFinished \subseteq cmds.despawn
    /\ tracker.spawned /\ tracker.alive < ENEMIES_TO_SPAWN

----------------------------------------------------------------------------
(* Properties of restart, spawning and pickups *)

\* the step in which handle_restart_input ran and read an R edge
Restarts == Stepped("handle_restart_input") /\ restart_pressed'

C12_FlagsCleared ==
    [][Restarts => ~player'.is_jumping]_vars

\* the assignments of a restart would change nothing in this state
RestartChangesNothing ==
    /\ active = NoCombat
    /\ {e \in EnemyIds : enemies[e].exists} \subseteq cmds.despawn
    /\ tracker = [spawned |-> FALSE, alive |-> 0]
    /\ Restored(player) = player
    /\ {x \in Places : pips[x] > 0} \subseteq pip_cmds.despawn
    /\ pip_tracker = [spawned |-> FALSE]
    /\ outcome = "None"

\* no session, no enemy and no pickup spawned, the player at full hp at the
\* origin with Walk selected, the outcome None
Unstarted ==
    /\ ~active.open
    /\ ~tracker.spawned /\ \A e \in EnemyIds : ~enemies[e].exists
    /\ ~pip_tracker.spawned /\ pips = NoPips
    /\ player.hp = MaxHealth /\ player.pos = Origin /\ player.anim = "Walk"
    /\ outcome = "None"

EnemyCount ==
    Cardinality({e \in EnemyIds : enemies[e].exists})
        + (IF cmds.spawn # << >> THEN ENEMIES_TO_SPAWN ELSE 0)

\* the HealthPip entities in the world and in the queued spawn
PipsCount == Total(pips) + Total(pip_cmds.spawn)

\* C14: once a spawn step has fired, and until a restart, running it again
\* spawns nothing and leaves its tracker alone; there are never more than 3
\* enemies nor more than 6 pickups, and EnemyTracker.alive is raised by the
\* firing spawn step only.
C14_SpawnOnce ==
    /\ [][Stepped("spawn_enemies_once") /\ tracker.spawned
            => UNCHANGED <<tracker, cmds>>]_vars
    /\ [][Stepped("spawn_health_pips_once") /\ pip_tracker.spawned
            => UNCHANGED <<pip_tracker, pip_cmds>>]_vars
    /\ [][tracker'.alive > tracker.alive
            => Stepped("spawn_enemies_once") /\ ~tracker.spawned]_vars
    /\ [](EnemyCount <= ENEMIES_TO_SPAWN /\ PipsCount <= PipCount)

\* both spawn steps have run again in a later frame than the one they fired
\* in, with the enemies and some pickups in the world
C14_Witness ==
    /\ {"spawn_health_pips_once", "spawn_enemies_once"} \subseteq ran
    /\ tracker.spawned /\ cmds.spawn = << >> /\ EnemyCount = ENEMIES_TO_SPAWN
    /\ pip_tracker.spawned /\ pip_cmds.spawn = NoPips /\ PipsCount = PipCount
    /\ ~restart_pressed

\* C15: the hp of the player and of every enemy is at most max_hp in every
\* state, whatever pickups were collected and whatever restarts happened.
C15_HpAtMostMax ==
    /\ player.hp <= MaxHealth
    /\ \A e \in EnemyIds : enemies[e].exists => enemies[e].hp <= MaxHealth

\* collect_health_pips has just healed the player with several pickups at once
C15_Witness ==
    /\ "collect_health_pips" \in ran
    /\ "spawn_enemies_once" \notin ran
    /\ outcome = "None" /\ player.has_stats
    /\ pips[player.gpos] >= 2
    /\ player.gpos \in pip_cmds.despawn
    /\ player.hp = MaxHealth

\* C16: a negative hp is stored only during the tick whose resolution causes
\* the death: at the start of every tick the hp of the player and of every
\* existing enemy is >= 0.
C16_HpNonNegative ==
    ran = {} =>
        /\ player.hp >= 0
        /\ \A e \in EnemyIds : enemies[e].exists => enemies[e].hp >= 0

----------------------------------------------------------------------------
(* Properties of the damage of a hit *)

\* C17: whatever the attack, the defense, the crit draw and the attacking
\* side, the damage subtracted on a hit is at least 1, also when the attack
\* does not exceed the defense.
C17_DamageAtLeastOne ==
    calc.applied => calc.dmg >= 1

\* a hit has been applied whose attack does not exceed the defense: the
\* player's, without crit, removes round(1 * 2.2) = 2
C17_Witness ==
    /\ calc.applied /\ calc.attack <= calc.defense
    /\ calc.side = "player" /\ ~calc.crit /\ calc.dmg = 2

\* C18: on a hit the defender's hp falls by exactly
\* max(round(max(attack - defense, 1) * c * m), 1), with c = 2 on a crit and 1
\* otherwise, m = 2.2 for the player and 1.8 for the enemy; attack 6 against
\* defense 0 without crit by the player removes exactly 13.  The product is
\* taken in tenths; r is its rounding when 10 r - 5 <= product < 10 r + 5.
C18_ExactDamage ==
    calc.applied =>
        LET raw == IF calc.attack - calc.defense >= 1
                   THEN calc.attack - calc.defense ELSE 1
            c == IF calc.crit THEN 2 ELSE 1
            m == IF calc.side = "player" THEN 22 ELSE 18
            removed == \E h \in {1, 30} : h - calc.hp = calc.dmg
        IN  /\ removed
            /\ \E r \in 0..(5 * MaxAttack) :
                    /\ 10 * r - 5 <= raw * c * m /\ raw * c * m < 10 * r + 5
                    /\ calc.dmg = IF r >= 1 THEN r ELSE 1
            /\ (calc.side = "player" /\ calc.attack = 6 /\ calc.defense = 0
                    /\ ~calc.crit) => calc.dmg = 13

\* the player's hit with attack 6 on defense 0 without crit has been applied
C18_Witness ==
    /\ calc.applied /\ calc.side = "player" /\ calc.attack = 6
    /\ calc.defense = 0 /\ ~calc.crit /\ calc.hp = 30 - 13

----------------------------------------------------------------------------
(* Properties of the frame of a turn resolution *)

\* whatever the crit draw, a resolution of the session's turn whose hit draw
\* fails (85 - 10 percent for the player, 75 - 10 for the enemy) changes no hp
MissChangesNoHp ==
    \A r1 \in Draws, r2 \in Draws :
        LET res == TurnResolution(active, player, enemies[active.enemy], r1, r2)
            miss == r1 >= (IF active.players_turn THEN 75 ELSE 65)
        IN  miss => /\ res.player.hp = player.hp
                    /\ res.enemy.hp = enemies[active.enemy].hp

\* C19: a turn resolution never changes the attacker's own hp nor the hp of
\* an enemy outside the session, the defender's hp never rises, and a
\* resolution whose hit draw fails changes no hp at all.
C19_OnlyDefenderOnHit ==
    /\ [][Resolves =>
            /\ active.players_turn => player'.hp = player.hp
            /\ ~active.players_turn
                    => enemies'[active.enemy].hp = enemies[active.enemy].hp
            /\ player'.hp <= player.hp
            /\ enemies'[active.enemy].hp <= enemies[active.enemy].hp
            /\ \A e \in EnemyIds \ {active.enemy} :
                    enemies'[e].hp = enemies[e].hp]_vars
    /\ [](active.open /\ player.has_stats /\ EnemyFound(active.enemy)
            => MissChangesNoHp)

\* the enemy's attack has just missed: the turn went back to the player with
\* every hp as it was, two other enemies standing by
C19_Witness ==
    /\ returned = "switched"
    /\ active.open /\ active.players_turn
    /\ enemies[active.enemy].anim = "Attack"
    /\ player.hp = MaxHealth
    /\ \A e \in EnemyIds : enemies[e].exists /\ enemies[e].hp = MaxHealth

----------------------------------------------------------------------------
(* Properties of the movement resolver *)

\* C20: whatever the start position, the direction, the speed and the delta
\* time, the translation move_player writes lies neither inside a NonWalkable
\* tile's box (inclusive, half a tile) nor strictly inside a Water tile's
\* smaller box, after any sequence of ticks and of resets to the origin.
C20_NeverInsideTile ==
    sweep.written => ~WouldCollidePoint(sweep.pos, sweep.solids, sweep.waters)

----------------------------------------------------------------------------
(* Properties of movement suppression and of missing clips *)

\* move_player runs where it suppresses movement
Suppressed == player.anim = "Death" \/ active.open \/ outcome # "None"

----------------------------------------------------------------------------
\* C22: an actor whose character definition has no Death entry is never
\* treated as having completed its death: death cleanup despawns nothing and
\* leaves EnemyTracker.alive and the outcome alone, and the player-death
\* handler never sets the outcome
C22_NoDeathClipNeverCompletes ==
    [][("Death" \notin level.clips) =>
         /\ Stepped("handle_enemy_death_cleanup") =>
                /\ cmds'.despawn = cmds.despawn
                /\ tracker'.alive = tracker.alive
                /\ outcome' = outcome
         /\ Stepped("handle_player_death_outcome") => outcome' = outcome]_vars

\* both handlers have run on a tick where the player and an enemy have Death
\* selected, their sprites at the end of the strip with the timer fired, and
\* the definition has no Death clip
C22_Witness ==
    /\ "Death" \notin level.clips
    /\ "handle_player_death_outcome" \in ran
    /\ player.anim = "Death" /\ player.done = "Death"
    /\ \E e \in EnemyIds : /\ enemies[e].exists
                           /\ enemies[e].anim = "Death" /\ enemies[e].done = "Death"
    /\ outcome = "None"
    /\ cmds.despawn = {}

----------------------------------------------------------------------------
\* C23: when the player or the session's enemy has Attack selected and the
\* definition has no Attack clip, the attack is never treated as finished: a
\* run of combat_input_and_turns resolves no turn (no hit or miss is played,
\* no hp changes, the turn does not pass)
C23_NoAttackClipBlocksAdvance ==
    [][/\ "Attack" \notin level.clips
       /\ Stepped("combat_input_and_turns")
       /\ active.open
       /\ \/ player.anim = "Attack"
          \/ EnemyFound(active.enemy) /\ enemies[active.enemy].anim = "Attack"
       => /\ returned' \notin {"enemy_dead", "player_dead", "switched"}
          /\ player'.hp = player.hp
          /\ \A e \in EnemyIds : enemies'[e].hp = enemies[e].hp
          /\ active'.players_turn = active.players_turn]_vars

----------------------------------------------------------------------------
\* C24: on any tick, whatever the outcome, collect_health_pips collects every
\* pickup within 0.4 tile of the player: each one is queued for removal and
\* the player's hp rises by the heal per pickup, capped at max_hp
C24_CollectedWhateverOutcome ==
    [][Stepped("collect_health_pips") /\ player.has_stats =>
         /\ PipsInReach \subseteq pip_cmds'.despawn
         /\ player'.hp = Healed(player.hp, pips[player.gpos])]_vars

----------------------------------------------------------------------------
\* C25: within a tick each piece of shared state is written by at most one
\* system, so its end-of-tick value does not depend on the order of the
\* systems.  For GameOutcome and EnemyTracker: on a tick in which
\* handle_restart_input has assigned them (R was pressed), neither death
\* handler assigns them again.
C25_OneWriterPerTick ==
    [][restart_pressed /\ "handle_restart_input" \in ran =>
         /\ Stepped("handle_enemy_death_cleanup") =>
                outcome' = outcome /\ tracker' = tracker
         /\ Stepped("handle_player_death_outcome") => outcome' = outcome]_vars

----------------------------------------------------------------------------
\* the enemies a step queues for removal
Removed == cmds'.despawn \ cmds.despawn

\* a step removes enemies from the simulation only by applying the queue
QueueOnly ==
    EnemyCount' < EnemyCount =>
        /\ cmds.despawn # {} /\ cmds'.despawn = {}
        /\ EnemyCount' = EnemyCount
                - Cardinality({e \in cmds.despawn : enemies[e].exists})

\* the step is death cleanup and every enemy it queues has Death selected with
\* the Death clip complete
ByDeathCleanup ==
    /\ Stepped("handle_enemy_death_cleanup")
    /\ \A e \in Removed : /\ enemies[e].exists
                           /\ enemies[e].anim = "Death"
                           /\ enemies[e].done = "Death"

\* C26: an enemy is removed only by the death-cleanup step, on a tick where
\* its selected animation is Death and its Death clip is complete; no other
\* operation removes an enemy
C26_OnlyDeathCleanupRemoves ==
    [][QueueOnly /\ (Removed # {} => ByDeathCleanup)]_vars

\* C26 amended: an enemy is removed only by the death-cleanup step, with Death
\* selected and its Death clip complete, or by the restart protocol, which
\* removes every enemy present
C26_CleanupOrRestartRemoves ==
    [][/\ QueueOnly
       /\ Removed # {} =>
            \/ ByDeathCleanup
            \/ Restarts /\ cmds'.despawn = {e \in EnemyIds : enemies[e].exists}]_vars

\* a restart has queued the removal of an enemy that has not died
C26_Witness ==
    /\ "handle_restart_input" \in ran /\ restart_pressed
    /\ \E e \in cmds.despawn : enemies[e].exists /\ enemies[e].anim # "Death"
                                /\ enemies[e].hp > 0

----------------------------------------------------------------------------
\* C27: once the player's hp has reached <= 0, the outcome eventually becomes
\* GameOver unless a restart is triggered first, given that every selected
\* clip eventually completes, whatever advance inputs arrive
C27_EventuallyLost ==
    [](player.has_stats /\ player.hp <= 0
          => <>(outcome = "GameOver" \/ restart_pressed))

----------------------------------------------------------------------------
(* Properties of the sub-steps of the movement resolver *)

\* the step of the sweep that computes `steps` and `step`
Begins == sweep.left = -1 /\ sweep'.left > 0

\* max_component of the delta behind the `steps` and `step` just computed
MaxComponent(sw) == Max(Abs(sw.step[1]), Abs(sw.step[2])) * sw.left

\* clamp(ceil(m / max_step_len), 1, 8): the least count in 1..8 whose sub-steps
\* of max_step_len cover m, and 8 when none does
LeastCount(m) ==
    IF \E n \in 1..MaxSteps : n * MaxStepLen >= m
    THEN CHOOSE n \in 1..MaxSteps :
            /\ n * MaxStepLen >= m
            /\ \A k \in 1..(n - 1) : k * MaxStepLen < m
    ELSE MaxSteps

\* the count of sub-steps is the clamped quotient
CountAsSpecified ==
    Begins => sweep'.left = LeastCount(MaxComponent(sweep'))

\* one round of the loop
SubSteps == sweep.left > 0 /\ sweep'.left = sweep.left - 1

\* the distance one round of the loop moves new_pos along each axis
SubStepMoved(k) == Abs(sweep'.new_pos[k] - sweep.new_pos[k])

----------------------------------------------------------------------------
\* a tile whose box the segment from a to b along axis k runs through from
\* side to side: its centre lies strictly between the end points, neither of
\* which is in the box
TilesCrossed(a, b, k) ==
    LET o == 3 - k
        Between(t) == \/ a[k] < t[k] /\ t[k] < b[k]
                      \/ b[k] < t[k] /\ t[k] < a[k]
    IN  {t \in sweep.solids : Between(t) /\ Abs(a[o] - t[o]) <= SolidHalf}
            \cup {t \in sweep.waters : Between(t) /\ Abs(a[o] - t[o]) < WaterHalf}

\* the step that writes the translation of a movement along axis k that began
\* at a position that does not collide
WritesAlong(k) ==
    /\ sweep.left = 0 /\ sweep'.written
    /\ sweep.step[3 - k] = 0 /\ sweep.step[k] # 0
    /\ ~WouldCollidePoint(sweep.pos, sweep.solids, sweep.waters)

\* C29: movement never tunnels: from a position that does not collide, the
\* movement of one tick along an axis never leaves the player on the far side
\* of a blocking tile on the travelled segment, whatever the speed and the
\* frame time
C29_NeverTunnels ==
    [][\A k \in {1, 2} :
          WritesAlong(k) => TilesCrossed(sweep.pos, sweep'.pos, k) = {}]_vars

----------------------------------------------------------------------------
\* the point is free of every tile of the sweep
Free(x, y) == ~WouldCollidePoint(<<x, y>>, sweep.solids, sweep.waters)

\* C30: in each sub-step the X candidate is tested first and the Y candidate
\* is tested from the resulting x; a rejected axis keeps its coordinate (no
\* bounce-back) and the other axis still moves when its candidate is free
C30_AxesSlide ==
    [][SubSteps =>
        LET x == sweep.new_pos[1]
            y == sweep.new_pos[2]
            sx == sweep.step[1]
            sy == sweep.step[2]
            nx == sweep'.new_pos[1]
            ny == sweep'.new_pos[2]
        IN  /\ nx = IF sx # 0 /\ Free(x + sx, y) THEN x + sx ELSE x
            /\ ny = IF sy # 0 /\ Free(nx, y + sy) THEN y + sy ELSE y]_vars

\* a diagonal movement against the NonWalkable tile: X was rejected in every
\* sub-step so far while Y has moved
C30_Witness ==
    /\ sweep.left >= 0
    /\ sweep.step[1] # 0 /\ sweep.step[2] # 0
    /\ sweep.new_pos[1] = sweep.pos[1]
    /\ sweep.new_pos[2] # sweep.pos[2]
    /\ ~WouldCollidePoint(sweep.pos, sweep.solids, sweep.waters)
    /\ WouldCollidePoint(<<sweep.pos[1] + sweep.step[1], sweep.new_pos[2]>>,
                         sweep.solids, sweep.waters)

----------------------------------------------------------------------------
(* Properties of the jump state *)

\* C31: pressing the jump key while movement is enabled sets the jumping flag
\* and selects Jump; while the flag is set move_player selects neither Walk
\* nor Run; the flag is cleared, and Walk selected, by update_jump_state on
\* exactly the ticks where it finds the selected clip complete, and by nothing
\* else
C31_JumpState ==
    [][/\ Stepped("move_player") /\ ~Suppressed /\ "Space" \in keys
            => player'.is_jumping /\ player'.anim = "Jump"
       /\ Stepped("move_player") /\ player.is_jumping
            => player'.anim \in {player.anim, "Jump"} /\ player'.is_jumping
       /\ player.is_jumping /\ ~player'.is_jumping
            => /\ Stepped("update_jump_state")
               /\ player.done = player.anim
               /\ player'.anim = "Walk"
       /\ Stepped("update_jump_state") /\ player.is_jumping
                /\ player.done = player.anim
            => ~player'.is_jumping /\ player'.anim = "Walk"]_vars

\* update_jump_state has just cleared the flag of a jump whose clip the last
\* frame step left complete
C31_Witness ==
    /\ "update_jump_state" \in ran /\ "animate_characters" \notin ran
    /\ ~player.is_jumping /\ player.anim = "Walk" /\ player.done = "Jump"

----------------------------------------------------------------------------
(* Properties of the combat log *)

\* the step that opens a session
Opens == ~active.open /\ active'.open

\* the log is empty when a session opens
EmptyAtStart == [][Opens => clog = NoLog]_vars

\* the log is empty at every tick boundary without a session
EmptyAtBoundary == (ran = {} /\ ~active.open) => clog = NoLog

\* the log is empty at the end of every tick without a session in which no
\* restart was triggered
EmptyUnlessRestarted ==
    [][ran = Scheduled /\ ran' = {} /\ ~active.open /\ ~restart_pressed
          => clog = NoLog]_vars

\* C32: the combat log is empty when a session opens, so before that session's
\* first resolution, and is empty again at every tick boundary at which no
\* session is active, also when a session closes and a new one opens on
\* consecutive ticks
C32_LogEmptyOutsideSessions == EmptyAtStart /\ [](EmptyAtBoundary)

\* C33: every enemy spawn_enemies_once places stands on a sampled point that
\* collides with no NonWalkable tile and no Water tile, or on the origin after
\* all 200 attempts of its sampling collided; when the system has finished,
\* exactly 3 enemies are placed and EnemyTracker is (spawned true, alive 3).
C33_PlacedFreeOrOrigin ==
    /\ \A i \in 1..Len(sampler.placed) :
        LET q == sampler.placed[i]
        IN  \/ /\ q.pos \in sampler.points
               /\ ~would_collide(q.pos, sampler.solids, sampler.waters)
            \/ q.pos = <<0, 0>> /\ q.exhausted
    /\ Len(sampler.placed) <= ENEMIES_TO_SPAWN
    /\ sampler.phase = "done"
        => /\ Len(sampler.placed) = ENEMIES_TO_SPAWN
           /\ tracker = [spawned |-> TRUE, alive |-> ENEMIES_TO_SPAWN]
    /\ sampler.phase \in {"sampling", "spawn", "finish"} => ~tracker.spawned

\* the system has finished on the map whose origin is blocked, with one enemy
\* on a sampled point and one on the origin after 200 colliding samples
C33_Witness ==
    /\ sampler.phase = "done" /\ tracker.spawned
    /\ would_collide(<<0, 0>>, sampler.solids, sampler.waters)
    /\ \E i, j \in 1..Len(sampler.placed) :
        /\ sampler.placed[i].exhausted /\ sampler.placed[i].pos = <<0, 0>>
        /\ ~sampler.placed[j].exhausted /\ sampler.placed[j].pos # <<0, 0>>

\* both combatants of the session `act` have hp above 0
BothAlive(act) == player.hp > 0 /\ enemies[act.enemy].hp > 0

\* C34, opening: detection opens a session only between a player and an
\* enemy that both have hp above 0.
OpensBetweenAlive == [][Opens => BothAlive(active')]_vars

\* C34, resolving: a turn is resolved only between a player and an enemy that
\* both have hp above 0 before the attack.
ResolvesBetweenAlive == [][Resolves => BothAlive(active)]_vars

\* C34: no session is opened with, and no turn is resolved between, combatants
\* either of whom has hp <= 0.
C34_NoCombatWithTheDead == OpensBetweenAlive /\ ResolvesBetweenAlive

\* the Enemy entities present in the world
Present == {e \in EnemyIds : enemies[e].exists}

\* C35: at every tick boundary EnemyTracker.alive equals the number of enemies
\* present in the world, and that number is at most 3.
C35_AliveCountsPresent ==
    ran = {} => /\ tracker.alive = Cardinality(Present)
                /\ Cardinality(Present) <= ENEMIES_TO_SPAWN

\* C36, presence: at a tick boundary with the outcome GameWon no Enemy entity
\* is present.
WonWithoutEnemies == ran = {} /\ outcome = "GameWon" => Present = {}

\* C36, spawning: spawn_enemies_once queues no spawn while the outcome is
\* GameWon.
NoSpawnWhileWon ==
    [][Stepped("spawn_enemies_once") /\ outcome = "GameWon"
            => cmds'.spawn = cmds.spawn]_vars

\* C36: whenever the outcome is GameWon no enemy is present, and no enemy is
\* spawned while the outcome is GameWon.
C36_WonMeansNoEnemy == NoSpawnWhileWon /\ [](WonWithoutEnemies)

\* C37: at the end of a tick in which the restart was triggered the outcome
\* is None and no session is active.
C37_RestartWinsTheTick ==
    [][ran = Scheduled /\ ran' = {} /\ restart_pressed
            => outcome = "None" /\ ~active.open]_vars

\* C38: whenever the outcome is GameOver the player's hp is at most 0, and
\* whenever the player's Death clip is selected the player's hp is at most 0.
C38_DyingPlayerStaysDead ==
    /\ outcome = "GameOver" => player.hp <= 0
    /\ player.anim = "Death" => player.hp <= 0

\* C39: a session opens with the player's turn; a resolution is the attack of
\* the side whose turn it is (the other side's hp is the only one it may
\* lower) and, when the session goes on, hands the turn to the other side;
\* no other step of an open session changes the turn.
C39_TurnsAlternate ==
    [][/\ Opens => active'.players_turn
       /\ Resolves /\ active.players_turn => player'.hp = player.hp
       /\ Resolves /\ ~active.players_turn
            => enemies'[active.enemy].hp = enemies[active.enemy].hp
       /\ Resolves /\ active'.open => active'.players_turn = ~active.players_turn
       /\ active.open /\ active'.open /\ ~Resolves
            => active'.players_turn = active.players_turn]_vars

\* the enemy's attack has just been resolved and has handed the turn back to
\* the player in a session that goes on
C39_Witness ==
    /\ returned = "switched" /\ active.open /\ active.players_turn
    /\ "handle_restart_input" \notin ran

\* what combat_input_and_turns needs, besides an advance input, to resolve a
\* turn
Resolvable ==
    /\ active.open /\ ~attack_in_progress
    /\ player.has_stats /\ EnemyFound(active.enemy)

\* move_player has set the jumping flag on the Space edge of this tick: it ran
\* before detection, with no session, no outcome and no Death selected
JumpedOnSpace ==
    /\ "move_player" \in ran /\ "Space" \in keys
    /\ player.is_jumping /\ player.anim = "Jump"

\* C40, opening tick: combat_input_and_turns, which runs next after detection,
\* resolves no turn in the tick in which detection has opened the session,
\* whatever the advance input.
OpeningTickIdle == [][Opens => ~Resolvable']_vars

\* C40, Space: the Space edge on which move_player has set the jumping flag
\* resolves no turn in the same tick.
SpaceJumpsOrFights == [][Opens /\ JumpedOnSpace => ~(Resolvable' /\ Proceed')]_vars

\* C40: a single press of Space never both sets the jumping flag and resolves
\* a turn in the same tick, and no turn is resolved in the tick in which its
\* session was opened.
C40_NoTurnOnOpeningTick == OpeningTickIdle /\ SpaceJumpsOrFights

====
